---- MODULE Spec2Model ----
(***************************************************************************)
(* Model of slice (src/src/main.rs): the range resolver of main, the       *)
(* seekable fast path of main, and the three cases of slice_stream, one    *)
(* step per loop iteration.                                                *)
(*                                                                         *)
(* Bytes are their integer values.  usize/isize arithmetic is modelled at  *)
(* a reduced word width (WordBits); an overflowing usize operation panics  *)
(* in a build with overflow checks ("debug") and wraps in one without      *)
(* ("release"), and the model carries the build as part of the state.      *)
(* The sink of the model is the writer handed to slice_stream or to         *)
(* io::copy; a write may fail at any byte.                                  *)
(* Range strings are modelled after tokenisation: the start part is empty  *)
(* or a signed integer, the end part is empty, "+N" or a signed integer.   *)
(***************************************************************************)
EXTENDS Integers, Sequences, FiniteSets, TLC

\* ------------------------------------------------------------------ bounds
MaxLen == 4
MaxOff == 3
WordBits == 8

\* ----------------------------------------------------------- program data
NL == 10

UsizeMod == 2 ^ WordBits

Alphabet == {NL, 97}

Hello == <<104, 101, 108, 108, 111, 10, 119, 111, 114, 108, 100, 10>>
Abcdef == <<97, 98, 99, 100, 101, 102>>

Inputs == UNION {[1..k -> Alphabet] : k \in 0..MaxLen}

EmptyPart == [kind |-> "empty", v |-> 0]
IntPart(x) == [kind |-> "int", v |-> x]
PlusPart(x) == [kind |-> "plus", v |-> x]

\* isize::MIN
IsizeMin == 0 - (UsizeMod \div 2)

\* The parts enumerated: the small offsets, and the edge of the word: the
\* least isize, and the relative end of the same magnitude.
StartParts ==
  {EmptyPart} \cup {IntPart(x) : x \in (0 - MaxOff)..MaxOff}
              \cup {IntPart(IsizeMin)}
EndParts ==
  {EmptyPart} \cup {IntPart(x) : x \in (0 - MaxOff)..MaxOff}
              \cup {PlusPart(x) : x \in 0..MaxOff}
              \cup {IntPart(IsizeMin), PlusPart(0 - IsizeMin)}

\* The concrete scenarios exercised besides the bounded enumeration.
Scenarios ==
  { [input |-> Hello, startPart |-> IntPart(0 - 5), endPart |-> EmptyPart, mode |-> "Byte"],
    [input |-> Hello, startPart |-> IntPart(0), endPart |-> IntPart(1), mode |-> "Line"],
    [input |-> Abcdef, startPart |-> IntPart(1), endPart |-> PlusPart(3), mode |-> "Byte"],
    [input |-> Abcdef, startPart |-> IntPart(2), endPart |-> IntPart(2), mode |-> "Byte"] }

Min(a, b) == IF a <= b THEN a ELSE b
Max(a, b) == IF a >= b THEN a ELSE b

\* ------------------------------------------------------------- SliceIdx
FromStart(n) == [tag |-> "FromStart", off |-> n]
FromEnd(n) == [tag |-> "FromEnd", off |-> n]
NoIdx == [tag |-> "None", off |-> 0]

\* usize wrap-around of an out-of-range mathematical result
WrapUsize(x) == ((x % UsizeMod) + UsizeMod) % UsizeMod
UsizeOverflows(x) == x < 0 \/ x >= UsizeMod

\* `n as isize`
AsIsize(n) == IF n >= UsizeMod \div 2 THEN n - UsizeMod ELSE n

\* `i as usize`
AsUsize(x) == IF x < 0 THEN x + UsizeMod ELSE x

\* isize wrap-around of an out-of-range mathematical result
WrapIsize(x) == AsIsize(WrapUsize(x))
IsizeOverflows(x) == x < IsizeMin \/ x > 0 - IsizeMin - 1

\* impl From<isize> for SliceIdx, `-i`: the negation leaves isize
NegOverflows(x) == x < 0 /\ IsizeOverflows(0 - x)

\* impl From<isize> for SliceIdx, as computed when `-i` wraps; a build with
\* overflow checks panics instead when NegOverflows(x).
FromIsize(x) ==
  IF x >= 0 THEN FromStart(AsUsize(x)) ELSE FromEnd(AsUsize(WrapIsize(0 - x)))

\* -------------------------------------------------------------- CountMode
CountModeByte(c) == 1
CountModeLine(c) == IF c = NL THEN 1 ELSE 0
Count(md, c) == IF md = "Byte" THEN CountModeByte(c) ELSE CountModeLine(c)

\* --------------------------------------------------------- range resolver
\* main, start part
ResolveStart(sp) == IF sp.kind = "empty" THEN FromStart(0) ELSE FromIsize(sp.v)

\* Fault variant of RelativeEndOff: the window length taken as the end offset.
RelativeEndOff_NoBase(st, n) == IF st.tag = "FromStart" THEN n ELSE st.off - n

\* main, "+N" end part: the offset as the mathematical result of m + n or
\* m - n, before usize range is applied.
RelativeEndOff(st, n) == IF st.tag = "FromStart" THEN st.off + n ELSE st.off - n

\* main, end part; the offset of a "+N" end may be out of usize range here.
ResolveEnd(st, ep) ==
  IF ep.kind = "empty" THEN FromEnd(0)
  ELSE IF ep.kind = "plus" THEN [tag |-> st.tag, off |-> RelativeEndOff(st, ep.v)]
  ELSE FromIsize(ep.v)

\* --------------------------------------------------------------- fast path
Clamp(x, lo, hi) == IF x < lo THEN lo ELSE IF x > hi THEN hi ELSE x

\* main: a boundary as an absolute, clamped file offset; `size - n as isize`
\* is an isize subtraction and wraps when it leaves isize (a build with
\* overflow checks resolves no offset for which it does, see FastAbsChecked).
FastAbs(b, size) ==
  Clamp(IF b.tag = "FromStart" THEN AsIsize(b.off)
                               ELSE WrapIsize(size - AsIsize(b.off)),
        0, size)

\* main: the bytes the seek + take + copy writes
FastPathOut(inp, st, en) ==
  LET size == Len(inp)
      s == FastAbs(st, size)
      e == FastAbs(en, size)
  IN IF s >= e THEN <<>> ELSE SubSeq(inp, s + 1, e)

\* ----------------------------------------------------- slice_stream tests
\* Fault variant of EmptyA: the range n:n enters the loop.
EmptyA_Strict(n, m) == n > m
\* Case A: `if n >= m { return Ok(()) }`
EmptyA(n, m) == n >= m
\* Fault variant of EmitA: the first selected unit is dropped.
EmitA_Strict(i, n) == i > n
\* Case A: `if i >= n { out.write_all }`
EmitA(i, n) == i >= n
\* Fault variant of StopA: one unit too many is read and written.
StopA_Late(i, m) == i > m
\* Case A: `if i >= m { return Ok(()) }`
StopA(i, m) == i >= m
\* Fault variant of EvictB: the window keeps one unit too many.
EvictB_Late(qn, m) == qn > m + 1
\* Fault variant of EvictB: one unit of the excluded tail is evicted as well.
EvictB_Eager(qn, m) == qn >= m
\* Case B: `while qn > m`
EvictB(qn, m) == qn > m
\* Fault variant of EvictC: the window keeps one unit too many.
EvictC_Late(qn, n) == qn > n + 1
\* Case C: `while qn > n`
EvictC(qn, n) == qn > n
\* Case C: the end position, as the mathematical result before usize range
EndPosC(i, n, en) == IF en.tag = "FromStart" THEN en.off ELSE i + n - en.off
\* Case C: `while i < m`
EmitC(i, m) == i < m

\* ------------------------------------------------------------------- state
VARIABLES
  input,      \* the bytes of the source
  startPart,  \* the range's start part
  endPart,    \* the range's end part
  mode,       \* "Byte" or "Line"
  seekable,   \* the input is a regular file or block device
  build,      \* "debug": overflow checks on; "release": wrapping
  pc,         \* position in main / slice_stream
  start,      \* resolved start boundary
  end,        \* resolved end boundary
  pos,        \* bytes read from the source so far
  out,        \* bytes written to the sink so far
  q,          \* the VecDeque window
  qn,         \* unit count of the window
  i,          \* the running unit counter
  m,          \* Case C: the resolved end position
  result,     \* "running", "ok", "panic" or "ioerr"
  qsrc,       \* history: the source offset of each byte of the window
  wrote,      \* history: the source offset of each byte written
  fault       \* history: the I/O failure met: "none", "read", "write", "seek"

vars == <<input, startPart, endPart, mode, seekable, build, pc, start, end,
          pos, out, q, qn, i, m, result, qsrc, wrote, fault>>

params == <<input, startPart, endPart, mode, seekable, build>>

Init ==
  /\ \/ /\ input \in Inputs
        /\ startPart \in StartParts
        /\ endPart \in EndParts
        /\ mode \in {"Byte", "Line"}
     \/ \E sc \in Scenarios :
          /\ input = sc.input
          /\ startPart = sc.startPart
          /\ endPart = sc.endPart
          /\ mode = sc.mode
  /\ seekable \in BOOLEAN
  /\ build \in {"debug", "release"}
  /\ pc = "resolve"
  /\ start = NoIdx
  /\ end = NoIdx
  /\ pos = 0
  /\ out = <<>>
  /\ q = <<>>
  /\ qn = 0
  /\ i = 0
  /\ m = 0
  /\ result = "running"
  /\ qsrc = <<>>
  /\ wrote = <<>>
  /\ fault = "none"

\* ----------------------------------------------------------------- actions
\* main: a part of the range is the isize whose negation leaves isize
PartNegOverflows ==
  \/ startPart.kind = "int" /\ NegOverflows(startPart.v)
  \/ endPart.kind = "int" /\ NegOverflows(endPart.v)

\* main: the range is resolved without leaving usize
ResolveOk ==
  /\ pc = "resolve"
  /\ build = "debug" => ~PartNegOverflows
  /\ LET st == ResolveStart(startPart)
         en == ResolveEnd(st, endPart)
     IN /\ ~UsizeOverflows(en.off)
        /\ start' = st
        /\ end' = en
  /\ pc' = "dispatch"
  /\ UNCHANGED <<params, fault, qsrc, wrote, pos, out, q, qn, i, m, result>>

\* main: `-i` leaves isize, or `m + n` / `m - n` leaves usize, in a build
\* with overflow checks
ResolvePanic ==
  /\ pc = "resolve"
  /\ build = "debug"
  /\ \/ PartNegOverflows
     \/ UsizeOverflows(ResolveEnd(ResolveStart(startPart), endPart).off)
  /\ pc' = "done"
  /\ result' = "panic"
  /\ UNCHANGED <<params, fault, qsrc, wrote, start, end, pos, out, q, qn, i, m>>

\* main: `m + n` / `m - n` leaves usize in a build without overflow checks
ResolveWrap ==
  /\ pc = "resolve"
  /\ build = "release"
  /\ LET st == ResolveStart(startPart)
         en == ResolveEnd(st, endPart)
     IN /\ UsizeOverflows(en.off)
        /\ start' = st
        /\ end' = [tag |-> en.tag, off |-> WrapUsize(en.off)]
  /\ pc' = "dispatch"
  /\ UNCHANGED <<params, fault, qsrc, wrote, pos, out, q, qn, i, m, result>>

\* main: `if seekable && mode == CountModeEnum::Byte`
UseFastPath == seekable /\ mode = "Byte"

\* main: the seekable fast path, its seeks and its copy succeeding
FastPath ==
  /\ pc = "dispatch"
  /\ UseFastPath
  /\ out' = FastPathOut(input, start, end)
  /\ pos' = Len(out')
  /\ wrote' = [k \in 1..Len(out') |-> FastAbs(start, Len(input)) + k - 1]
  /\ pc' = "done"
  /\ result' = "ok"
  /\ UNCHANGED <<params, fault, qsrc, start, end, q, qn, i, m>>

\* slice_stream: the match on (start, end)
StreamStart ==
  /\ pc = "dispatch"
  /\ ~UseFastPath
  /\ IF start.tag = "FromStart" /\ end.tag = "FromStart"
       THEN IF EmptyA(start.off, end.off)
              THEN pc' = "done" /\ result' = "ok"
              ELSE pc' = "A_loop" /\ UNCHANGED result
       ELSE /\ UNCHANGED result
            /\ IF start.tag = "FromStart"
                 THEN pc' = IF start.off > 0 THEN "B_skip" ELSE "B_read"
                 ELSE pc' = "C_read"
  /\ UNCHANGED <<params, fault, qsrc, wrote, start, end, pos, out, q, qn, i, m>>

\* Case A: one iteration of the loop
StepA ==
  /\ pc = "A_loop"
  /\ IF pos >= Len(input)
       THEN /\ pc' = "done"
            /\ result' = "ok"
            /\ UNCHANGED <<pos, out, i, wrote>>
       ELSE LET c == input[pos + 1]
                ni == i + Count(mode, c)
            IN /\ pos' = pos + 1
               /\ out' = IF EmitA(i, start.off) THEN Append(out, c) ELSE out
               /\ wrote' = IF EmitA(i, start.off) THEN Append(wrote, pos) ELSE wrote
               /\ i' = ni
               /\ IF StopA(ni, end.off)
                    THEN pc' = "done" /\ result' = "ok"
                    ELSE UNCHANGED <<pc, result>>
  /\ UNCHANGED <<params, fault, qsrc, start, end, q, qn, m>>

\* Case B: one iteration of `for _ in 0..n`; i counts the iterations done
SkipB ==
  /\ pc = "B_skip"
  /\ IF pos >= Len(input)
       THEN /\ pc' = "done"
            /\ result' = "ok"
            /\ UNCHANGED <<pos, i>>
       ELSE /\ pos' = pos + 1
            /\ i' = i + 1
            /\ pc' = IF i + 1 >= start.off THEN "B_read" ELSE "B_skip"
            /\ UNCHANGED result
  /\ UNCHANGED <<params, fault, qsrc, wrote, start, end, out, q, qn, m>>

\* Case B: read, push_back, qn += count
ReadB ==
  /\ pc = "B_read"
  /\ IF pos >= Len(input)
       THEN /\ pc' = "done"
            /\ result' = "ok"
            /\ UNCHANGED <<pos, q, qn, qsrc>>
       ELSE LET c == input[pos + 1]
                nq == qn + Count(mode, c)
            IN /\ pos' = pos + 1
               /\ q' = Append(q, c)
               /\ qsrc' = Append(qsrc, pos)
               /\ qn' = nq
               /\ pc' = IF EvictB(nq, end.off) THEN "B_evict" ELSE "B_read"
               /\ UNCHANGED result
  /\ UNCHANGED <<params, fault, wrote, start, end, out, i, m>>

\* Fault variant of EvictStepB: qn is not reduced by the evicted byte.
EvictStepB_NoCount ==
  /\ pc = "B_evict"
  /\ q # <<>>
  /\ q' = Tail(q)
  /\ qsrc' = Tail(qsrc)
  /\ out' = Append(out, Head(q))
  /\ wrote' = Append(wrote, Head(qsrc))
  /\ UNCHANGED <<params, fault, start, end, pos, i, m, result, qn, pc>>

\* Fault variant of EvictStepB: the window is popped at the back.
EvictStepB_PopBack ==
  /\ pc = "B_evict"
  /\ q # <<>>
  /\ LET back == q[Len(q)]
         nq == qn - Count(mode, back)
     IN /\ q' = SubSeq(q, 1, Len(q) - 1)
        /\ qsrc' = SubSeq(qsrc, 1, Len(q) - 1)
        /\ qn' = nq
        /\ out' = Append(out, back)
        /\ wrote' = Append(wrote, qsrc[Len(q)])
        /\ pc' = IF EvictB(nq, end.off) THEN "B_evict" ELSE "B_read"
  /\ UNCHANGED <<params, fault, start, end, pos, i, m, result>>

\* Case B: one iteration of `while qn > m`
EvictStepB ==
  /\ pc = "B_evict"
  /\ IF q = <<>>
       THEN /\ pc' = "done"
            /\ result' = "panic"
            /\ UNCHANGED <<q, qn, out, qsrc, wrote>>
       ELSE LET front == Head(q)
                nq == qn - Count(mode, front)
            IN /\ q' = Tail(q)
               /\ qsrc' = Tail(qsrc)
               /\ qn' = nq
               /\ out' = Append(out, front)
               /\ wrote' = Append(wrote, Head(qsrc))
               /\ pc' = IF EvictB(nq, end.off) THEN "B_evict" ELSE "B_read"
               /\ UNCHANGED result
  /\ UNCHANGED <<params, fault, start, end, pos, i, m>>

\* Case C: read, push_back, qn += count
ReadC ==
  /\ pc = "C_read"
  /\ IF pos >= Len(input)
       THEN /\ pc' = "C_end"
            /\ UNCHANGED <<pos, q, qn, qsrc>>
       ELSE LET c == input[pos + 1]
                nq == qn + Count(mode, c)
            IN /\ pos' = pos + 1
               /\ q' = Append(q, c)
               /\ qsrc' = Append(qsrc, pos)
               /\ qn' = nq
               /\ pc' = IF EvictC(nq, start.off) THEN "C_evict" ELSE "C_read"
  /\ UNCHANGED <<params, fault, wrote, start, end, out, i, m, result>>

\* Fault variant of EvictStepC: the evicted units are not added to i.
EvictStepC_NoCount ==
  /\ pc = "C_evict"
  /\ q # <<>>
  /\ LET v == Count(mode, Head(q))
     IN /\ q' = Tail(q)
        /\ qsrc' = Tail(qsrc)
        /\ qn' = qn - v
        /\ pc' = IF EvictC(qn - v, start.off) THEN "C_evict" ELSE "C_read"
  /\ UNCHANGED <<params, fault, wrote, start, end, pos, out, m, i, result>>

\* Case C: one iteration of `while qn > n`
EvictStepC ==
  /\ pc = "C_evict"
  /\ IF q = <<>>
       THEN /\ pc' = "done"
            /\ result' = "panic"
            /\ UNCHANGED <<q, qn, i, qsrc>>
       ELSE LET front == Head(q)
                v == Count(mode, front)
            IN /\ q' = Tail(q)
               /\ qsrc' = Tail(qsrc)
               /\ qn' = qn - v
               /\ i' = i + v
               /\ pc' = IF EvictC(qn - v, start.off) THEN "C_evict" ELSE "C_read"
               /\ UNCHANGED result
  /\ UNCHANGED <<params, fault, wrote, start, end, pos, out, m>>

\* Case C: `let m = match m {...}` stays within usize
EndC ==
  /\ pc = "C_end"
  /\ ~UsizeOverflows(EndPosC(i, start.off, end))
  /\ m' = EndPosC(i, start.off, end)
  /\ pc' = "C_emit"
  /\ UNCHANGED <<params, fault, qsrc, wrote, start, end, pos, out, q, qn, i, result>>

\* Case C: `i + n - m` underflows in a build with overflow checks
EndCPanic ==
  /\ pc = "C_end"
  /\ build = "debug"
  /\ UsizeOverflows(EndPosC(i, start.off, end))
  /\ pc' = "done"
  /\ result' = "panic"
  /\ UNCHANGED <<params, fault, qsrc, wrote, start, end, pos, out, q, qn, i, m>>

\* Case C: `i + n - m` underflows in a build without overflow checks
EndCWrap ==
  /\ pc = "C_end"
  /\ build = "release"
  /\ UsizeOverflows(EndPosC(i, start.off, end))
  /\ m' = WrapUsize(EndPosC(i, start.off, end))
  /\ pc' = "C_emit"
  /\ UNCHANGED <<params, fault, qsrc, wrote, start, end, pos, out, q, qn, i, result>>

\* Fault variant of EmitStepC: the `else { break }` on an empty window is
\* missing, so the loop spins while i < m.
EmitStepC_NoBreak ==
  /\ pc = "C_emit"
  /\ IF EmitC(i, m)
       THEN /\ q # <<>>
            /\ q' = Tail(q)
            /\ qsrc' = Tail(qsrc)
            /\ out' = Append(out, Head(q))
            /\ wrote' = Append(wrote, Head(qsrc))
            /\ i' = i + Count(mode, Head(q))
            /\ UNCHANGED <<pc, result>>
       ELSE /\ pc' = "done"
            /\ result' = "ok"
            /\ UNCHANGED <<q, out, i, qsrc, wrote>>
  /\ UNCHANGED <<params, fault, start, end, pos, qn, m>>

\* Case C: one iteration of `while i < m`, or its exit and the final Ok(())
EmitStepC ==
  /\ pc = "C_emit"
  /\ IF EmitC(i, m) /\ q # <<>>
       THEN LET c == Head(q)
            IN /\ q' = Tail(q)
               /\ qsrc' = Tail(qsrc)
               /\ out' = Append(out, c)
               /\ wrote' = Append(wrote, Head(qsrc))
               /\ i' = i + Count(mode, c)
               /\ UNCHANGED <<pc, result>>
       ELSE /\ pc' = "done"
            /\ result' = "ok"
            /\ UNCHANGED <<q, out, i, qsrc, wrote>>
  /\ UNCHANGED <<params, fault, start, end, pos, qn, m>>

Next ==
  \/ ResolveOk
  \/ ResolvePanic
  \/ ResolveWrap
  \/ FastPath
  \/ StreamStart
  \/ StepA
  \/ SkipB
  \/ ReadB
  \/ EvictStepB
  \/ ReadC
  \/ EvictStepC
  \/ EndC
  \/ EndCPanic
  \/ EndCWrap
  \/ EmitStepC

Spec == Init /\ [][Next]_vars

\* ------------------------------------------------------------ I/O failures
\* read_char: the source fails with an error other than UnexpectedEof
ReadFail ==
  /\ pc \in {"A_loop", "B_skip", "B_read", "C_read"}
  /\ fault' = "read"
  /\ pc' = "done"
  /\ result' = "ioerr"
  /\ UNCHANGED <<params, start, end, pos, out, q, qn, i, m, qsrc, wrote>>

\* Case A: a byte was read and `out.write_all(&[c])?` fails
WriteFailA ==
  /\ pc = "A_loop"
  /\ pos < Len(input)
  /\ EmitA(i, start.off)
  /\ pos' = pos + 1
  /\ fault' = "write"
  /\ pc' = "done"
  /\ result' = "ioerr"
  /\ UNCHANGED <<params, start, end, out, q, qn, i, m, qsrc, wrote>>

\* Case B: the front was popped, qn reduced, and `out.write_all(&[front])?` fails
WriteFailB ==
  /\ pc = "B_evict"
  /\ q # <<>>
  /\ q' = Tail(q)
  /\ qsrc' = Tail(qsrc)
  /\ qn' = qn - Count(mode, Head(q))
  /\ fault' = "write"
  /\ pc' = "done"
  /\ result' = "ioerr"
  /\ UNCHANGED <<params, start, end, pos, out, i, m, wrote>>

\* Case C: the front was popped and `out.write_all(&[c])?` fails
WriteFailC ==
  /\ pc = "C_emit"
  /\ EmitC(i, m)
  /\ q # <<>>
  /\ q' = Tail(q)
  /\ qsrc' = Tail(qsrc)
  /\ fault' = "write"
  /\ pc' = "done"
  /\ result' = "ioerr"
  /\ UNCHANGED <<params, start, end, pos, out, qn, i, m, wrote>>

\* main, fast path: `file.seek(...)?` fails, before anything is written
FastSeekFail ==
  /\ pc = "dispatch"
  /\ UseFastPath
  /\ fault' = "seek"
  /\ pc' = "done"
  /\ result' = "ioerr"
  /\ UNCHANGED <<params, start, end, pos, out, q, qn, i, m, qsrc, wrote>>

\* main, fast path: `std::io::copy(...)?` fails on a read of the file, after
\* k bytes of a non-empty range were copied
FastCopyReadFail ==
  /\ pc = "dispatch"
  /\ UseFastPath
  /\ LET all == FastPathOut(input, start, end)
         s == FastAbs(start, Len(input))
     IN \E k \in 0..(Len(all) - 1) :
          /\ out' = SubSeq(all, 1, k)
          /\ wrote' = [j \in 1..k |-> s + j - 1]
          /\ pos' = k
  /\ fault' = "read"
  /\ pc' = "done"
  /\ result' = "ioerr"
  /\ UNCHANGED <<params, start, end, q, qn, i, m, qsrc>>

\* main, fast path: `std::io::copy(...)?` fails on a write to the sink, after
\* r bytes of a non-empty range were read and k < r of them written
FastCopyWriteFail ==
  /\ pc = "dispatch"
  /\ UseFastPath
  /\ LET all == FastPathOut(input, start, end)
         s == FastAbs(start, Len(input))
     IN \E k \in 0..(Len(all) - 1) : \E r \in (k + 1)..Len(all) :
          /\ out' = SubSeq(all, 1, k)
          /\ wrote' = [j \in 1..k |-> s + j - 1]
          /\ pos' = r
  /\ fault' = "write"
  /\ pc' = "done"
  /\ result' = "ioerr"
  /\ UNCHANGED <<params, start, end, q, qn, i, m, qsrc>>

NextIO ==
  \/ Next
  \/ ReadFail
  \/ FastSeekFail
  \/ FastCopyReadFail
  \/ FastCopyWriteFail
  \/ WriteFailA
  \/ WriteFailB
  \/ WriteFailC

\* The program with a source and a sink that may fail.
SpecIO == Init /\ [][NextIO]_vars

NextW ==
  \/ Next
  \/ FastCopyWriteFail
  \/ WriteFailA
  \/ WriteFailB
  \/ WriteFailC

\* The program with a source whose reads do not fail: the process is
\* single-threaded and its reads return, so it takes a step whenever one is
\* possible.
SpecLive == Init /\ [][NextW]_vars /\ WF_vars(NextW)

\* ---------------------------------------------------- reference notions
\* The resolver produced a range (it did not panic) without leaving usize.
Resolved == start # NoIdx
ResolvedInRange ==
  /\ Resolved
  /\ ~UsizeOverflows(ResolveEnd(ResolveStart(startPart), endPart).off)

Finished == pc = "done"

\* `size - n as isize` of the fast path leaves isize.
FastAbsOverflows(b, size) ==
  b.tag = "FromEnd" /\ IsizeOverflows(size - AsIsize(b.off))

\* A build with overflow checks resolves no boundary for which the fast
\* path's subtraction would leave isize, so it has no panic there.
FastAbsChecked ==
  (build = "debug" /\ Resolved)
    => (/\ ~FastAbsOverflows(start, Len(input))
        /\ ~FastAbsOverflows(end, Len(input)))

\* A byte completes a unit: every byte in byte mode, the newline in line mode.
EndsUnit(md, c) == md = "Byte" \/ c = 10

\* Unit position of the byte at index k (1-based): units completed before it.
UnitPos(inp, md, k) == Cardinality({j \in 1..(k - 1) : EndsUnit(md, inp[j])})

\* Units completed in the whole input.
UnitTotal(inp, md) == Cardinality({j \in 1..Len(inp) : EndsUnit(md, inp[j])})

\* Units of the input, a final unterminated line counting as a line.
NumUnits(inp, md) ==
  UnitTotal(inp, md)
    + (IF Len(inp) > 0 /\ ~EndsUnit(md, inp[Len(inp)]) THEN 1 ELSE 0)

RECURSIVE PickFrom(_, _, _)
PickFrom(inp, S, k) ==
  IF k > Len(inp) THEN <<>>
  ELSE (IF k \in S THEN <<inp[k]>> ELSE <<>>) \o PickFrom(inp, S, k + 1)

\* The bytes of inp at the indices in S, in order.
Pick(inp, S) == PickFrom(inp, S, 1)

\* The bytes whose unit position lies in [lo, hi).
UnitsBetween(inp, md, lo, hi) ==
  Pick(inp, {k \in 1..Len(inp) : lo <= UnitPos(inp, md, k) /\ UnitPos(inp, md, k) < hi})

\* The bytes whose unit position is at least lo.
UnitsFrom(inp, md, lo) ==
  Pick(inp, {k \in 1..Len(inp) : lo <= UnitPos(inp, md, k)})

\* A boundary as an absolute unit position of a stream of T units, clamped.
AbsPos(b, T) == Clamp(IF b.tag = "FromStart" THEN b.off ELSE T - b.off, 0, T)

NonNegStart == startPart.kind = "int" /\ startPart.v >= 0
NegStart == startPart.kind = "int" /\ startPart.v < 0

\* The start part converts to a boundary: `-i` does not panic.
StartResolves == ~(build = "debug" /\ startPart.kind = "int" /\ NegOverflows(startPart.v))

\* ------------------------------------------------------------------ claims

\* C1: in byte mode, for every resolved range, a run of slice_stream ends
\* without error with exactly the output the seekable fast path computes for
\* the same input and range.
C1_StreamEqualsFastPath ==
  (Finished /\ ResolvedInRange /\ mode = "Byte" /\ ~UseFastPath)
    => (result = "ok" /\ out = FastPathOut(input, start, end))

\* C2: byte mode, range n:m with 0 <= n <= m <= L: the output is the byte
\* substring [n, m), through slice_stream and through the fast path.
C2_ByteSubstring ==
  (/\ Finished
   /\ mode = "Byte"
   /\ NonNegStart
   /\ endPart.kind = "int"
   /\ startPart.v <= endPart.v
   /\ endPart.v <= Len(input))
    => (result = "ok" /\ out = SubSeq(input, startPart.v + 1, endPart.v))

C2_Witness ==
  /\ Finished
  /\ mode = "Byte"
  /\ ~UseFastPath
  /\ startPart = IntPart(1)
  /\ endPart = IntPart(3)
  /\ Len(input) = 4
  /\ out = SubSeq(input, 2, 3)

\* C3: line mode, range n:m with 0 <= n <= m: a byte is emitted iff the
\* number of newlines strictly before it is >= n and < m, so the output is
\* lines [n, m), an unterminated final line emitted without a newline.
C3_LineRange ==
  (/\ Finished
   /\ mode = "Line"
   /\ NonNegStart
   /\ endPart.kind = "int"
   /\ startPart.v <= endPart.v)
    => (result = "ok" /\ out = UnitsBetween(input, "Line", startPart.v, endPart.v))

C3_Witness ==
  /\ Finished
  /\ mode = "Line"
  /\ startPart = IntPart(1)
  /\ endPart = IntPart(2)
  /\ input = <<97, 10, 97>>
  /\ out = <<97>>

\* C4: range -n: yields the trailing n units (bytes, or lines with a final
\* unterminated line counting as a line), and the entire input when it has
\* fewer than n units.
C4_NegativeIndex ==
  (Finished /\ NegStart /\ endPart.kind = "empty")
    => (/\ result = "ok"
        /\ out = UnitsFrom(input, mode, NumUnits(input, mode) + startPart.v))

\* C5: whenever the clamped resolved start position is >= the clamped
\* resolved end position, the output is empty and the run ends without error.
C5_EmptyRange ==
  (/\ Finished
   /\ ResolvedInRange
   /\ \A T \in {UnitTotal(input, mode), NumUnits(input, mode)} :
        AbsPos(start, T) >= AbsPos(end, T))
    => (result = "ok" /\ out = <<>>)

\* C6: with the end part omitted, every input byte at or after the resolved
\* start position is emitted: the output is the suffix of the input from
\* that position through the last byte.
C6_OmittedEnd ==
  (Finished /\ startPart.kind = "int" /\ endPart.kind = "empty")
    => (/\ result = "ok"
        /\ out = UnitsFrom(input, mode, AbsPos(start, NumUnits(input, mode))))

\* C7: a relative end +N after a start FromEnd(m) with N > m ends the
\* resolver in an error: no slicing, no wrapped end offset, no output.
C7_RangeOverflow ==
  (/\ pc # "resolve"
   /\ NegStart
   /\ endPart.kind = "plus"
   /\ endPart.v > 0 - startPart.v)
    => (/\ pc = "done"
        /\ result \notin {"running", "ok"}
        /\ end = NoIdx
        /\ out = <<>>)

\* C8: m:+N resolves to (FromStart(m), FromStart(m+N)) and in byte mode
\* outputs the bytes [m, min(m+N, L)); "abcdef" with 1:+3 gives "bcd"; after
\* a start FromEnd(m), +N with N <= m resolves to FromEnd(m-N).
C8_RelativeEnd ==
  /\ (pc # "resolve" /\ NonNegStart /\ endPart.kind = "plus")
       => (/\ start = FromStart(startPart.v)
           /\ end = FromStart(startPart.v + endPart.v)
           /\ (Finished /\ mode = "Byte")
                => (/\ result = "ok"
                    /\ out = SubSeq(input, startPart.v + 1,
                                    Min(startPart.v + endPart.v, Len(input)))))
  /\ (/\ Finished
      /\ input = Abcdef
      /\ mode = "Byte"
      /\ startPart = IntPart(1)
      /\ endPart = PlusPart(3))
       => out = <<98, 99, 100>>
  /\ (/\ pc # "resolve"
      /\ NegStart
      /\ StartResolves
      /\ endPart.kind = "plus"
      /\ endPart.v <= 0 - startPart.v)
       => (/\ start = FromEnd(0 - startPart.v)
           /\ end = FromEnd(0 - startPart.v - endPart.v))

C8_Witness ==
  /\ Finished
  /\ input = Abcdef
  /\ mode = "Byte"
  /\ ~UseFastPath
  /\ startPart = IntPart(1)
  /\ endPart = PlusPart(3)
  /\ out = <<98, 99, 100>>

HelloTail5 ==
  /\ input = Hello
  /\ mode = "Byte"
  /\ startPart = IntPart(0 - 5)
  /\ endPart = EmptyPart

\* C9 as stated: "hello\nworld\n", byte mode, range -5: outputs "world\n".
C9_Original == (Finished /\ HelloTail5) => out = <<119, 111, 114, 108, 100, 10>>

\* C9: "hello\nworld\n", byte mode, range -5: outputs the last five bytes,
\* "orld\n", through slice_stream and through the fast path.
C9_HelloTail ==
  (Finished /\ HelloTail5) => (result = "ok" /\ out = <<111, 114, 108, 100, 10>>)

C9_Witness == Finished /\ HelloTail5 /\ ~UseFastPath /\ Len(out) = 5

\* C10: in Case C with end FromEnd(m), the end position computed once the
\* source is exhausted is non-negative and equals max(0, T - m), T the
\* total unit count of the stream.
C10_EndPosition ==
  (/\ ResolvedInRange
   /\ ~UseFastPath
   /\ start.tag = "FromEnd"
   /\ end.tag = "FromEnd")
    => (/\ result # "panic"
        /\ pc = "C_emit" => m = Max(0, UnitTotal(input, mode) - end.off))

\* ------------------------------------------------- slice_stream, by case
Streaming == Resolved /\ ~UseFastPath /\ pc \notin {"resolve", "dispatch"}
CaseA == Streaming /\ start.tag = "FromStart" /\ end.tag = "FromStart"
CaseB == Streaming /\ start.tag = "FromStart" /\ end.tag = "FromEnd"
CaseC == Streaming /\ start.tag = "FromEnd"

\* The source offsets a, a+1, ..., b-1 in order.
Offsets(a, b) == [k \in 1..(b - a) |-> a + k - 1]

\* The longest suffix of s that completes at most k units.
LongestTail(s, md, k) ==
  LET fits == {j \in 0..Len(s) : UnitTotal(SubSeq(s, j + 1, Len(s)), md) <= k}
      j0 == CHOOSE j \in fits : \A h \in fits : j <= h
  IN SubSeq(s, j0 + 1, Len(s))

\* C11: Case B in either mode discards exactly min(n, L) raw bytes, then at
\* every step the bytes emitted followed by the window are the bytes read
\* after the skip, and at end of input the output is the input without its
\* first n bytes and without the longest suffix of at most m units, which
\* stays in the window.
C11_CaseB ==
  CaseB =>
    /\ pc = "B_skip"
         => (pos = i /\ pos < start.off /\ out = <<>> /\ q = <<>> /\ wrote = <<>>)
    /\ pc \in {"B_read", "B_evict"}
         => (/\ pos >= start.off
             /\ out \o q = SubSeq(input, start.off + 1, pos)
             /\ wrote \o qsrc = Offsets(start.off, pos))
    /\ (Finished /\ fault = "none")
         => LET skip == Min(start.off, Len(input))
                rest == SubSeq(input, skip + 1, Len(input))
            IN /\ result = "ok"
               /\ pos = Len(input)
               /\ wrote \o qsrc = Offsets(skip, Len(input))
               /\ q = LongestTail(rest, mode, end.off)
               /\ out \o q = rest

C11_Witness ==
  /\ CaseB
  /\ Finished
  /\ mode = "Line"
  /\ startPart = IntPart(2)
  /\ endPart = EmptyPart
  /\ input = <<97, 97, 10, 97>>
  /\ out = <<10>>
  /\ q = <<97>>

\* Units completed by the first k bytes of the input.
UnitsRead(k) == UnitTotal(SubSeq(input, 1, k), mode)

\* C12: Case A with n >= m returns success with no byte read and nothing
\* written; otherwise no byte is read once the unit counter has reached m
\* (byte mode reads exactly min(L, m) bytes) and nothing is written beyond
\* the bytes read.
C12_CaseAReadBound ==
  CaseA =>
    /\ Len(out) <= pos
    /\ start.off >= end.off
         => (Finished /\ result = "ok" /\ pos = 0 /\ out = <<>>)
    /\ start.off < end.off
         => (/\ pos > 0 => UnitsRead(pos - 1) < end.off
             /\ pc = "A_loop" => (i = UnitsRead(pos) /\ i < end.off)
             /\ (Finished /\ fault = "none")
                  => (/\ result = "ok"
                      /\ pos = Len(input) \/ UnitsRead(pos) >= end.off
                      /\ mode = "Byte" => pos = Min(Len(input), end.off)
                      /\ \A k \in 1..Len(wrote) : wrote[k] < pos))

C12_Witness ==
  /\ CaseA
  /\ Finished
  /\ mode = "Line"
  /\ start.off < end.off
  /\ 0 < pos
  /\ pos < Len(input)
  /\ UnitsRead(pos) = end.off
  /\ out # <<>>

\* The bytes of the input at the source offsets written.
BytesAt(offs) == [k \in 1..Len(offs) |-> input[offs[k] + 1]]

\* After an I/O failure slice_stream has returned that error, takes no
\* further step, and the sink holds exactly the bytes written before it;
\* without an I/O failure no I/O error is returned.
IoAbort ==
  Streaming =>
    /\ fault # "none"
         => (/\ pc = "done"
             /\ result = "ioerr"
             /\ ~ENABLED NextIO
             /\ out = BytesAt(wrote))
    /\ fault = "none" => result # "ioerr"

\* C13: a failed read or write ends slice_stream at once with that error and
\* the bytes already written stay written; a clean end of input is not an
\* error and ends the loop, after which the call returns success.
C13_IoFailure ==
  /\ IoAbort
  /\ (Streaming /\ Finished /\ fault = "none") => result = "ok"

\* The bytes written are input bytes at consecutive source offsets, each
\* below the read position.
WrittenInOrder ==
  /\ out = BytesAt(wrote)
  /\ \A k \in 1..Len(wrote) : 0 <= wrote[k] /\ wrote[k] < pos
  /\ \A k \in 1..(Len(wrote) - 1) : wrote[k + 1] = wrote[k] + 1

\* The window holds input bytes at consecutive source offsets after every
\* offset written and below the read position.
WindowInOrder ==
  /\ q = BytesAt(qsrc)
  /\ \A k \in 1..Len(qsrc) : 0 <= qsrc[k] /\ qsrc[k] < pos
  /\ \A k \in 1..(Len(qsrc) - 1) : qsrc[k + 1] = qsrc[k] + 1
  /\ \A k \in 1..Len(wrote) : \A j \in 1..Len(qsrc) : wrote[k] < qsrc[j]

\* C14: in every state of slice_stream the sink holds a contiguous run
\* input[a..b) in original order, every byte is written at most once and
\* only after it was read, and the source is read forward one byte at a
\* time, never rewound.
C14_OrderPreserved ==
  /\ [](Streaming => (pos <= Len(input) /\ WrittenInOrder /\ WindowInOrder))
  /\ [][Streaming => (pos' = pos \/ pos' = pos + 1)]_vars

C14_Witness ==
  /\ CaseB
  /\ mode = "Line"
  /\ Len(out) >= 2
  /\ Len(q) >= 1
  /\ wrote[1] > 0

\* C15: in Case B and Case C, whenever the processing of an input byte is
\* complete (the eviction loop has ended), qn is at most the offset of the
\* end-anchored boundary the window serves (m in Case B, n in Case C); in
\* byte mode the window then holds at most that many bytes.
C15_WindowBound ==
  /\ (CaseB /\ pc = "B_read")
       => (qn <= end.off /\ (mode = "Byte" => Len(q) <= end.off))
  /\ (CaseC /\ pc \in {"C_read", "C_end"})
       => (qn <= start.off /\ (mode = "Byte" => Len(q) <= start.off))

C15_Witness ==
  /\ CaseC
  /\ pc = "C_read"
  /\ mode = "Byte"
  /\ start.off >= 1
  /\ Len(q) = start.off
  /\ pos >= start.off + 2

\* C16: during the read phase of Case C, after every push and every
\* eviction, i + qn is the unit count of the bytes read so far and the window
\* is the last bytes read; when the source is exhausted i is the stream's
\* unit total minus the units kept in the window, and 0 when the stream has
\* at most n units.
C16_CaseCCounters ==
  (CaseC /\ pc \in {"C_read", "C_evict", "C_end"})
    => /\ i + qn = UnitsRead(pos)
       /\ q = SubSeq(input, pos - Len(q) + 1, pos)
       /\ qsrc = Offsets(pos - Len(q), pos)
       /\ pc = "C_end"
            => (/\ pos = Len(input)
                /\ i = UnitTotal(input, mode) - UnitTotal(q, mode)
                /\ UnitTotal(input, mode) <= start.off => i = 0)

C16_Witness ==
  /\ CaseC
  /\ pc = "C_end"
  /\ mode = "Line"
  /\ i >= 1
  /\ Len(q) >= 2

\* qn is the unit count of the bytes in the window.
WindowCounted == qn = UnitTotal(q, mode)

\* C17 as stated: in every reachable state of Case B and Case C qn equals
\* the sum of count(b) over the bytes in the window.
C17_Original == (CaseB \/ CaseC) => WindowCounted

\* C17: in every state of Case B, and in every state of Case C up to the end
\* of its read loop, qn equals the sum of count(b) over the bytes in the
\* window; so whenever an eviction loop runs the window is non-empty, the
\* unwrap cannot panic and qn - count(front) is not negative.  (The emission
\* loop of Case C pops the window without updating qn, which it no longer
\* reads.)
C17_EvictionSafe ==
  /\ (CaseB \/ (CaseC /\ pc \in {"C_read", "C_evict", "C_end"})) => WindowCounted
  /\ (Streaming /\ pc \in {"B_evict", "C_evict"})
       => (q # <<>> /\ qn - Count(mode, Head(q)) >= 0)
  /\ CaseB => result # "panic"
  /\ (CaseC /\ result = "panic") => UsizeOverflows(EndPosC(i, start.off, end))

C17_Witness ==
  /\ CaseC
  /\ pc = "C_evict"
  /\ mode = "Line"
  /\ Len(q) >= 3
  /\ Count(mode, Head(q)) = 0

\* C18: for every finite input whose reads do not fail, every range and both
\* modes, the run ends: every loop of slice_stream stops.
C18_Terminates == <>Finished

C18_Witness ==
  /\ CaseC
  /\ Finished
  /\ result = "ok"
  /\ build = "release"
  /\ m > UnitTotal(input, mode) + start.off
  /\ pos = Len(input)
  /\ Len(out) >= 2
  /\ q = <<>>

====
